---- MODULE Spec2Model ----
(***************************************************************************)
(* The design-packet generation pipeline of src/services/gemini.ts         *)
(* (generateDesignPacket) as a state machine.  One run of the async        *)
(* function is modelled; every await is a suspension point, the code       *)
(* between two awaits is one atomic action, and the responses of the       *)
(* generative endpoints are chosen by the environment when they settle.    *)
(***************************************************************************)
EXTENDS Integers, Sequences, FiniteSets, TLC

(***************************************************************************)
(* Bounds of the model.                                                    *)
(***************************************************************************)
\* longest diagramsPlan the specification endpoint returns in the model
MaxPlan == 2

(***************************************************************************)
(* JavaScript values.  Every value is a function with a tag field "t", so  *)
(* that any two values can be compared.  An object is a function from its  *)
(* own field names: a missing field is missing from the domain.            *)
(***************************************************************************)
Undefined == [t |-> "undefined"]
JNull == [t |-> "null"]
Str(s) == [t |-> "string", v |-> s]
Arr(s) == [t |-> "array", v |-> s]
EmptyObject == [t |-> "object"]

\* o.f for an object o: undefined when the object has no such field
Get(o, f) == IF f \in DOMAIN o THEN o[f] ELSE Undefined
\* o.f = v
Set(o, f, v) == [g \in DOMAIN o \cup {f} |-> IF g = f THEN v ELSE o[g]]
\* the object o with the fields fs deleted
Without(o, fs) == [g \in DOMAIN o \ fs |-> o[g]]
\* JavaScript truthiness of the values of the model
Truthy(v) ==
  /\ v.t \notin {"undefined", "null"}
  /\ ~(v.t = "string" /\ v.v = "")
IsObject(v) == v.t = "object"

\* variant: the values that are not null, last first
RECURSIVE NonNull_LastFirst(_)
NonNull_LastFirst(s) ==
  IF s = <<>> THEN <<>>
  ELSE IF Head(s) = JNull THEN NonNull_LastFirst(Tail(s))
  ELSE NonNull_LastFirst(Tail(s)) \o <<Head(s)>>
\* SelectSeq with the test inlined for values that may be of mixed shape
RECURSIVE NonNull(_)
NonNull(s) ==
  IF s = <<>> THEN <<>>
  ELSE IF Head(s) = JNull THEN NonNull(Tail(s))
  ELSE <<Head(s)>> \o NonNull(Tail(s))

(***************************************************************************)
(* Response texts.  A text is empty (undefined or ""), or not JSON at all, *)
(* or the JSON encoding of a value.                                        *)
(***************************************************************************)
EmptyText == [t |-> "text", kind |-> "empty"]
GarbageText == [t |-> "text", kind |-> "garbage"]
JsonText(v) == [t |-> "text", kind |-> "json", val |-> v]

\* text || "{}"
OrEmptyObjectText(text) == IF text.kind = "empty" THEN JsonText(EmptyObject) ELSE text
\* JSON.parse(text): the parsed value, or a SyntaxError
JSONParse(text) ==
  IF text.kind = "json" THEN [ok |-> TRUE, val |-> text.val] ELSE [ok |-> FALSE]

\* a request that threw instead of returning a response
Threw == [t |-> "threw"]

(***************************************************************************)
(* Promises.                                                               *)
(***************************************************************************)
NoPromise == [st |-> "none"]
Pending == [st |-> "pending"]
Fulfilled(v) == [st |-> "fulfilled", val |-> v]
Rejected(e) == [st |-> "rejected", err |-> e]

(***************************************************************************)
(* The specifications the text endpoint returns in the model.              *)
(***************************************************************************)
PlanEntry(ty, title) ==
  [t |-> "object", diagramType |-> Str(ty), title |-> title,
   descriptionForImageModel |-> Str("d")]
\* a null entry, an entry without title, with an empty title, and two titled ones
PlanEntries ==
  { JNull,
    Without(PlanEntry("top", Undefined), {"title"}),
    PlanEntry("top", Str("")),
    PlanEntry("top", Str("A")),
    PlanEntry("side", Str("B")) }
RECURSIVE SeqsUpTo(_, _)
SeqsUpTo(S, n) ==
  IF n = 0 THEN {<<>>}
  ELSE LET shorter == SeqsUpTo(S, n - 1)
       IN shorter \cup {Append(s, x) : s \in {q \in shorter : Len(q) = n - 1}, x \in S}
Plans == SeqsUpTo(PlanEntries, MaxPlan)

FullSpec(plan) ==
  [t |-> "object",
   productName |-> Str("Widget"),
   productType |-> Str("physical"),
   summary |-> Str("s"),
   keyRequirements |-> Arr(<<Str("r")>>),
   constraints |-> [t |-> "object", environment |-> Str("indoor")],
   partsList |-> Arr(<<[t |-> "object", name |-> Str("motor"), description |-> Str("m")]>>),
   diagramsPlan |-> Arr(plan)]
DefaultedFields == {"constraints", "diagramsPlan", "partsList"}
\* every plan in a complete specification, and one plan with every subset of
\* the defaulted fields and of keyRequirements left out
SpecObjects ==
  {FullSpec(p) : p \in Plans}
  \cup {Without(FullSpec(<<PlanEntry("top", Str("A"))>>), fs) :
          fs \in SUBSET (DefaultedFields \cup {"keyRequirements"})}
SpecTexts == {EmptyText, GarbageText, JsonText(JNull)} \cup {JsonText(o) : o \in SpecObjects}
SpecResponses == {Threw} \cup SpecTexts

(***************************************************************************)
(* State.                                                                  *)
(***************************************************************************)
VARIABLES
  pc,              \* the await generateDesignPacket is suspended at
  onStatusChange,  \* whether the caller passed a progress sink
  statusLog,       \* the statuses delivered to the sink, in order
  calls,           \* the number of requests issued to each endpoint
  specResponse,    \* the response the specification request got
  spec,            \* the parsed and defaulted specification
  imagePromises,   \* one promise per diagramsPlan entry
  imgResponse,     \* the response each image request got
  generatedImages,
  codePromise,
  pitchPromise,
  audioResp,       \* the response the speech request got
  generatedCode,
  marketingPitchUrl,
  operation,       \* the video operation as last reported
  attempts,        \* polls completed in the poll loop
  videoEnd,        \* how the video stage ended
  videoUrl,
  auditResponse,   \* the response the audit request got
  selfCheck,
  outcome          \* what the promise returned by generateDesignPacket settled to

\* the state of the App component (src/App.tsx) and of the IndexedDB store
VARIABLES
  hg,              \* handleGenerate: "awaiting" while it awaits generateDesignPacket
  status,          \* useState<GenerationStatus>
  data,            \* useState<DesignResponse | null>
  recents,         \* useState<RecentDesign[]>
  store,           \* the object store 'designs', one record per key
  now,             \* what Date.now() returns
  saveOps,         \* the calls of handleSaveRecent, each with the step it is at
  history,         \* what every settled run settled to, in order
  exported,        \* the specification handleDownload last wrote to a file
  other            \* a second call of handleGenerate made while the first is
                   \* awaited: the number of statuses its run has delivered

locals ==
  <<pc, statusLog, calls, specResponse, spec, imagePromises,
    imgResponse, generatedImages, codePromise, pitchPromise, audioResp, generatedCode,
    marketingPitchUrl, operation, attempts, videoEnd, videoUrl, auditResponse,
    selfCheck, outcome>>
appVars == <<hg, status, data, recents, store, now, saveOps, history, exported, other>>
vars == <<onStatusChange, locals, appVars>>

Endpoints == {"spec", "image", "code", "pitch", "video", "audit"}
NoOutcome == [t |-> "none"]
\* variant: the packet's spec is the corrected specification when there is one
Packet_SpecCorrected(s, imgs, sc, code, pitch, video) ==
  [t |-> "packet",
   spec |-> IF Truthy(Get(sc, "correctedSpec")) THEN sc.correctedSpec ELSE s,
   images |-> imgs, selfCheck |-> sc,
   implementationCode |-> code, marketingPitchUrl |-> pitch, videoUrl |-> video]
Packet(s, imgs, sc, code, pitch, video) ==
  [t |-> "packet", spec |-> s, images |-> imgs, selfCheck |-> sc,
   implementationCode |-> code, marketingPitchUrl |-> pitch, videoUrl |-> video]
Failure(e) == [t |-> "error", err |-> e]

\* a progress sink: a function that throws when it is called with a status of
\* throwsOn.  An absent sink is undefined.
Sink(throwsOn) == [t |-> "function", throwsOn |-> throwsOn]
\* const setStatus = (s) => onStatusChange && onStatusChange(s): the statuses
\* delivered to the sink (setStatus), and whether the call throws (SinkThrows)
\* variant: every status is delivered twice
setStatus_Twice(log, s) == IF Truthy(onStatusChange) THEN Append(Append(log, s), s) ELSE log
setStatus(log, s) == IF Truthy(onStatusChange) THEN Append(log, s) ELSE log
SinkThrows(s) == Truthy(onStatusChange) /\ s \in onStatusChange.throwsOn
\* variant: every request is issued a second time
Issue_Twice(c, e, n) == [c EXCEPT ![e] = @ + 2 * n]
\* one more request to endpoint e
Issue(c, e, n) == [c EXCEPT ![e] = @ + n]

\* the one caller, handleGenerate, always passes a progress sink, and the
\* sink, (s) => setStatus(s), does not throw
Sinks == {Sink({})}

\* generateDesignPacket has not been called
NotCalled ==
  /\ pc = "idle"
  /\ statusLog = <<>>
  /\ calls = [e \in Endpoints |-> 0]
  /\ specResponse = Undefined
  /\ spec = Undefined
  /\ imagePromises = <<>>
  /\ imgResponse = <<>>
  /\ generatedImages = <<>>
  /\ codePromise = NoPromise
  /\ pitchPromise = NoPromise
  /\ audioResp = Undefined
  /\ generatedCode = Undefined
  /\ marketingPitchUrl = Undefined
  /\ operation = Undefined
  /\ attempts = 0
  /\ videoEnd = "none"
  /\ videoUrl = Undefined
  /\ auditResponse = Undefined
  /\ selfCheck = Undefined
  /\ outcome = NoOutcome

\* the first value of the clock in the model
Epoch == 9
\* the App once mounted, with an API key selected and the first loadRecents
\* over, on a browser whose store is empty
Mounted ==
  /\ hg = "none"
  /\ status = "idle"
  /\ data = JNull
  /\ recents = <<>>
  /\ store = {}
  /\ now = Epoch
  /\ saveOps = <<>>
  /\ history = <<>>
  /\ exported = Undefined
  /\ other = 0

Init ==
  /\ onStatusChange \in Sinks
  /\ NotCalled
  /\ Mounted

\* the sink threw out of setStatus: no setStatus call is inside a try block,
\* so the exception rejects the promise generateDesignPacket returned
SinkAborts ==
  /\ pc' = "rejected"
  /\ outcome' = Failure("progress sink")

\* variant: the audit request is issued together with the specification request
FirstRequests_WithAudit(c) == Issue(Issue(c, "spec", 1), "audit", 1)
\* variant: the pitch request is issued together with the specification request
FirstRequests_WithPitch(c) == Issue(Issue(c, "spec", 1), "pitch", 1)
\* the requests issued before the first await: the specification request alone
FirstRequests(c) == Issue(c, "spec", 1)

\* generateDesignPacket is called: setStatus('spec') and the specification request
Call ==
  /\ pc = "idle"
  /\ statusLog' = setStatus(statusLog, "spec")
  /\ IF SinkThrows("spec")
     THEN SinkAborts /\ UNCHANGED calls
     ELSE /\ calls' = FirstRequests(calls)
          /\ pc' = "awaitSpec"
          /\ UNCHANGED outcome
  /\ UNCHANGED <<onStatusChange, specResponse, spec, imagePromises, imgResponse, generatedImages,
                 codePromise, pitchPromise, audioResp, generatedCode,
                 marketingPitchUrl, operation, attempts, videoEnd, videoUrl,
                 auditResponse, selfCheck>>

(***************************************************************************)
(* STEP 1: the specification.                                              *)
(***************************************************************************)
\* variant: the partsList default is forgotten
ApplyDefaults_NoPartsList(o) ==
  LET a == IF ~Truthy(Get(o, "constraints")) THEN Set(o, "constraints", EmptyObject) ELSE o
  IN IF ~Truthy(Get(a, "diagramsPlan")) THEN Set(a, "diagramsPlan", Arr(<<>>)) ELSE a
\* the three defaults applied to a parsed object
ApplyDefaults(o) ==
  LET a == IF ~Truthy(Get(o, "constraints")) THEN Set(o, "constraints", EmptyObject) ELSE o
      b == IF ~Truthy(Get(a, "diagramsPlan")) THEN Set(a, "diagramsPlan", Arr(<<>>)) ELSE a
  IN IF ~Truthy(Get(b, "partsList")) THEN Set(b, "partsList", Arr(<<>>)) ELSE b
\* variant: a text that is no JSON is read as "{}" instead of failing
ParseSpec_Lenient(text) ==
  LET parsed == JSONParse(OrEmptyObjectText(text))
  IN IF ~parsed.ok THEN [ok |-> TRUE, val |-> ApplyDefaults(EmptyObject)]
     ELSE IF ~IsObject(parsed.val) THEN [ok |-> FALSE]
     ELSE [ok |-> TRUE, val |-> ApplyDefaults(parsed.val)]
\* the try block around JSON.parse and the defaults: the specification, or
\* the failure the catch block turns into "Failed to generate valid spec"
ParseSpec(text) ==
  LET parsed == JSONParse(OrEmptyObjectText(text))
  IN IF ~parsed.ok THEN [ok |-> FALSE]
     ELSE IF ~IsObject(parsed.val) THEN [ok |-> FALSE]   \* TypeError on null.constraints
     ELSE [ok |-> TRUE, val |-> ApplyDefaults(parsed.val)]

\* variant: an entry with an empty title is not skipped
Skipped_EmptyTitleKept(plan) == ~Truthy(plan) \/ Get(plan, "title") \in {Undefined, JNull}
\* variant: only null entries are skipped, the title is not looked at
Skipped_NullOnly(plan) == ~Truthy(plan)
\* if (!plan || !plan.title) return null
Skipped(plan) == ~Truthy(plan) \/ ~Truthy(Get(plan, "title"))
ImagePrompt(plan) ==
  <<Get(plan, "diagramType"), Get(plan, "title"), Get(plan, "descriptionForImageModel")>>
\* the promise the map callback returns for one entry, up to its first await
StartImage(plan) == IF Skipped(plan) THEN Fulfilled(JNull) ELSE Pending
StartImages(plan) == [i \in 1..Len(plan) |-> StartImage(plan[i])]
CountPending(ps) == Cardinality({i \in 1..Len(ps) : ps[i] = Pending})

\* the specification request settles
SpecSettle ==
  /\ pc = "awaitSpec"
  /\ \E response \in SpecResponses :
       /\ specResponse' = response
       /\ IF response = Threw
          THEN /\ pc' = "rejected"
               /\ outcome' = Failure("specification request")
               /\ UNCHANGED <<statusLog, calls, spec, imagePromises, imgResponse>>
          ELSE LET r == ParseSpec(response)
               IN IF ~r.ok
                  THEN /\ pc' = "rejected"
                       /\ outcome' = Failure("Failed to generate valid spec")
                       /\ UNCHANGED <<statusLog, calls, spec, imagePromises, imgResponse>>
                  ELSE LET plan == r.val.diagramsPlan.v
                           ps == StartImages(plan)
                       IN /\ spec' = r.val
                          /\ statusLog' = setStatus(statusLog, "images")
                          /\ IF SinkThrows("images")
                             THEN SinkAborts /\ UNCHANGED <<calls, imagePromises, imgResponse>>
                             ELSE /\ imagePromises' = ps
                                  /\ imgResponse' = [i \in 1..Len(plan) |-> Undefined]
                                  /\ calls' = Issue(calls, "image", CountPending(ps))
                                  /\ pc' = "awaitImages"
                                  /\ UNCHANGED outcome
  /\ UNCHANGED <<onStatusChange, generatedImages, codePromise, pitchPromise, audioResp,
                 generatedCode, marketingPitchUrl, operation, attempts, videoEnd,
                 videoUrl, auditResponse, selfCheck>>

(***************************************************************************)
(* STEP 2: the diagrams.                                                   *)
(***************************************************************************)
TextPart == [text |-> "caption"]
InlinePart(d) == [inlineData |-> [mimeType |-> "image/png", data |-> d]]
ImageResponse(parts) == [t |-> "response", candidates |-> <<[content |-> [parts |-> parts]]>>]
\* a request that throws, a response without image, a response with two
ImageResponses ==
  { Threw, ImageResponse(<<TextPart>>),
    ImageResponse(<<TextPart, InlinePart("img1"), InlinePart("img2")>>) }

\* the loop over candidates[0].content.parts: the first part with inlineData
RECURSIVE FirstInline(_)
FirstInline(parts) ==
  IF parts = <<>> THEN Str("")
  ELSE IF "inlineData" \in DOMAIN Head(parts)
       THEN Str(<<"data:", Head(parts).inlineData.mimeType, ";base64,", Head(parts).inlineData.data>>)
       ELSE FirstInline(Tail(parts))
\* variant: only the last part is looked at
ImageUrl_LastPart(resp) ==
  IF Len(resp.candidates) > 0
  THEN LET parts == resp.candidates[1].content.parts
       IN IF parts = <<>> THEN Str("") ELSE FirstInline(<<parts[Len(parts)]>>)
  ELSE Str("")
ImageUrl(resp) ==
  IF Len(resp.candidates) > 0 THEN FirstInline(resp.candidates[1].content.parts) ELSE Str("")
\* what the map callback returns once its request has settled
ImageResult(plan, resp) ==
  IF resp = Threw THEN JNull
  ELSE IF Truthy(ImageUrl(resp))
       THEN [t |-> "object", diagramType |-> Get(plan, "diagramType"),
             title |-> Get(plan, "title"), url |-> ImageUrl(resp),
             promptUsed |-> ImagePrompt(plan)]
       ELSE JNull

\* one image request settles
ImageSettle(i) ==
  /\ i \in 1..Len(imagePromises)
  /\ imagePromises[i] = Pending
  /\ \E resp \in ImageResponses :
       /\ imgResponse' = [imgResponse EXCEPT ![i] = resp]
       /\ imagePromises' =
            [imagePromises EXCEPT ![i] = Fulfilled(ImageResult(spec.diagramsPlan.v[i], resp))]
  /\ UNCHANGED <<pc, onStatusChange, specResponse, statusLog, calls, spec, generatedImages, codePromise,
                 pitchPromise, audioResp, generatedCode, marketingPitchUrl, operation,
                 attempts, videoEnd, videoUrl, auditResponse, selfCheck, outcome>>

\* the values Promise.all(imagePromises) resolves with
Results(ps) == [i \in 1..Len(ps) |-> ps[i].val]
AllFulfilled(ps) == \A i \in 1..Len(ps) : ps[i].st = "fulfilled"

\* codePromise up to its first await: the prompt reads spec.keyRequirements.join
StartCode(s) ==
  IF Get(s, "keyRequirements").t = "array" THEN Pending ELSE Rejected("TypeError")

\* every image promise has settled: collect, then start the code and pitch requests
ImagesJoin ==
  /\ pc = "awaitImages"
  /\ AllFulfilled(imagePromises)
  /\ generatedImages' = NonNull(Results(imagePromises))
  /\ statusLog' = setStatus(statusLog, "code")
  /\ IF SinkThrows("code")
     THEN SinkAborts /\ UNCHANGED <<calls, codePromise, pitchPromise>>
     ELSE /\ codePromise' = StartCode(spec)
          /\ pitchPromise' = Pending
          /\ calls' = Issue(Issue(calls, "code", IF StartCode(spec) = Pending THEN 1 ELSE 0),
                            "pitch", 1)
          /\ pc' = "awaitAux"
          /\ UNCHANGED outcome
  /\ UNCHANGED <<onStatusChange, specResponse, spec, imagePromises, imgResponse, audioResp, generatedCode,
                 marketingPitchUrl, operation, attempts, videoEnd, videoUrl, auditResponse,
                 selfCheck>>

(***************************************************************************)
(* STEP 3: implementation code and audio pitch.                            *)
(***************************************************************************)
FullCode ==
  [t |-> "object", language |-> Str("cpp"), code |-> Str("void loop(){}"),
   explanation |-> Str("e")]
CodeResponses == {Threw, EmptyText, GarbageText, JsonText(FullCode)}
\* try { return JSON.parse(codeResp.text || "{}") } catch { return undefined }
ParseCode(text) ==
  LET parsed == JSONParse(OrEmptyObjectText(text))
  IN IF parsed.ok THEN parsed.val ELSE Undefined
\* what codePromise settles to once its request has settled
CodeResult(resp) ==
  IF resp = Threw THEN Rejected("code request") ELSE Fulfilled(ParseCode(resp))

CodeSettle ==
  /\ codePromise = Pending
  /\ \E codeResp \in CodeResponses : codePromise' = CodeResult(codeResp)
  /\ UNCHANGED <<pc, onStatusChange, specResponse, statusLog, calls, spec, imagePromises, imgResponse,
                 generatedImages, pitchPromise, audioResp, generatedCode, marketingPitchUrl,
                 operation, attempts, videoEnd, videoUrl, auditResponse, selfCheck, outcome>>

AudioResponses ==
  {Threw, ImageResponse(<<TextPart>>), ImageResponse(<<InlinePart("pcm")>>)}
\* audioResp.candidates?.[0]?.content?.parts?.[0]?.inlineData?.data
AudioData(resp) ==
  IF Len(resp.candidates) = 0 THEN Undefined
  ELSE LET parts == resp.candidates[1].content.parts
       IN IF parts = <<>> THEN Undefined
          ELSE IF "inlineData" \in DOMAIN parts[1] THEN Str(parts[1].inlineData.data)
          ELSE Undefined
\* what pitchPromise resolves with: the try/catch covers the request
PitchResult(resp) ==
  IF resp = Threw THEN Undefined
  ELSE IF Truthy(AudioData(resp)) THEN Str(<<"data:audio/wav;base64,", AudioData(resp).v>>)
  ELSE Undefined

PitchSettle ==
  /\ pitchPromise = Pending
  /\ \E resp \in AudioResponses :
       /\ audioResp' = resp
       /\ pitchPromise' = Fulfilled(PitchResult(resp))
  /\ UNCHANGED <<pc, onStatusChange, specResponse, statusLog, calls, spec, imagePromises, imgResponse,
                 generatedImages, codePromise, generatedCode, marketingPitchUrl, operation,
                 attempts, videoEnd, videoUrl, auditResponse, selfCheck, outcome>>

\* Promise.all([codePromise, pitchPromise]) rejects as soon as one of them rejects
AuxReject ==
  /\ pc = "awaitAux"
  /\ codePromise.st = "rejected" \/ pitchPromise.st = "rejected"
  /\ outcome' = Failure(IF codePromise.st = "rejected" THEN codePromise.err ELSE pitchPromise.err)
  /\ pc' = "rejected"
  /\ UNCHANGED <<onStatusChange, specResponse, statusLog, calls, spec, imagePromises, imgResponse,
                 generatedImages, codePromise, pitchPromise, audioResp, generatedCode,
                 marketingPitchUrl, operation, attempts, videoEnd, videoUrl, auditResponse,
                 selfCheck>>

\* both have resolved: destructure, then start the video generation
AuxJoin ==
  /\ pc = "awaitAux"
  /\ codePromise.st = "fulfilled" /\ pitchPromise.st = "fulfilled"
  /\ generatedCode' = codePromise.val
  /\ marketingPitchUrl' = pitchPromise.val
  /\ statusLog' = setStatus(statusLog, "video")
  /\ IF SinkThrows("video")
     THEN SinkAborts /\ UNCHANGED calls
     ELSE /\ calls' = Issue(calls, "video", 1)
          /\ pc' = "awaitVideoStart"
          /\ UNCHANGED outcome
  /\ UNCHANGED <<onStatusChange, specResponse, spec, imagePromises, imgResponse, generatedImages,
                 codePromise, pitchPromise, audioResp, operation, attempts, videoEnd,
                 videoUrl, auditResponse, selfCheck>>

(***************************************************************************)
(* STEP 4: the video, a long-running operation that is polled.             *)
(***************************************************************************)
\* while (!operation.done && attempts < 30)
MaxAttempts == 30
API_KEY == "KEY"
NotDone == [t |-> "operation"]
DoneWithUri ==
  [t |-> "operation", done |-> TRUE,
   response |-> [generatedVideos |-> <<[video |-> [uri |-> "https://v/1?alt=media"]]>>]]
DoneWithoutVideo == [t |-> "operation", done |-> TRUE]
Operations == {NotDone, DoneWithUri, DoneWithoutVideo}
OperationResponses == {Threw} \cup Operations

IsDone(op) == "done" \in DOMAIN op /\ op.done
\* operation.response?.generatedVideos?.[0]?.video?.uri
ResultUri(op) ==
  IF "response" \in DOMAIN op /\ Len(op.response.generatedVideos) > 0
  THEN Str(op.response.generatedVideos[1].video.uri)
  ELSE Undefined
\* variant: the loop goes on although the operation is done
KeepPolling_IgnoresDone(op, n) == n < MaxAttempts
\* variant: the attempt budget is off by one
KeepPolling_OffByOne(op, n) == ~IsDone(op) /\ n <= MaxAttempts
\* the loop condition
KeepPolling(op, n) == ~IsDone(op) /\ n < MaxAttempts
\* variant: the uri is passed on without the key
VideoUrlOf_NoKey(op) ==
  IF IsDone(op) /\ Truthy(ResultUri(op)) THEN Str(<<ResultUri(op).v>>) ELSE Undefined
\* the if after the loop
VideoUrlOf(op) ==
  IF IsDone(op) /\ Truthy(ResultUri(op))
  THEN Str(<<ResultUri(op).v, "&key=", API_KEY>>)
  ELSE Undefined

\* the poll requests issued so far in the poll loop
PollCalls == attempts + IF pc = "awaitPoll" THEN 1 ELSE 0

\* the end of the try block (or its catch), then STEP 5 up to the audit request;
\* op is the operation as last assigned, and attempts goes out of scope
LeaveVideoStage(how, op, url) ==
  /\ videoEnd' = how
  /\ videoUrl' = url
  /\ operation' = op
  /\ attempts' = 0
  /\ statusLog' = setStatus(statusLog, "audit")
  /\ IF SinkThrows("audit")
     THEN SinkAborts /\ UNCHANGED calls
     ELSE /\ calls' = Issue(calls, "audit", 1)
          /\ pc' = "awaitAudit"
          /\ UNCHANGED outcome

\* variant: the polls are not counted, the loop ends only on a done operation
LoopTest_NeverCounts(op, n) ==
  IF ~IsDone(op)
  THEN /\ operation' = op
       /\ attempts' = 0
       /\ pc' = "videoWait"
       /\ UNCHANGED <<statusLog, calls, videoEnd, videoUrl, outcome>>
  ELSE LeaveVideoStage("done", op, VideoUrlOf(op))
\* the loop test with the operation op after n polls
LoopTest(op, n) ==
  IF KeepPolling(op, n)
  THEN /\ operation' = op
       /\ attempts' = n
       /\ pc' = "videoWait"
       /\ UNCHANGED <<statusLog, calls, videoEnd, videoUrl, outcome>>
  ELSE LeaveVideoStage(IF IsDone(op) THEN "done" ELSE "exhausted", op, VideoUrlOf(op))

\* generateVideos settles
VideoStartSettle ==
  /\ pc = "awaitVideoStart"
  /\ \E r \in OperationResponses :
       IF r = Threw THEN LeaveVideoStage("start threw", operation, Undefined) ELSE LoopTest(r, 0)
  /\ UNCHANGED <<onStatusChange, specResponse, spec, imagePromises, imgResponse, generatedImages,
                 codePromise, pitchPromise, audioResp, generatedCode, marketingPitchUrl,
                 auditResponse, selfCheck>>

\* the ten-second timer fires: the next poll request is issued
VideoWaitOver ==
  /\ pc = "videoWait"
  /\ pc' = "awaitPoll"
  /\ UNCHANGED <<onStatusChange, specResponse, statusLog, calls, spec, imagePromises, imgResponse,
                 generatedImages, codePromise, pitchPromise, audioResp, generatedCode,
                 marketingPitchUrl, operation, attempts, videoEnd, videoUrl, auditResponse,
                 selfCheck, outcome>>

\* getVideosOperation settles
VideoPollSettle ==
  /\ pc = "awaitPoll"
  /\ \E r \in OperationResponses :
       IF r = Threw THEN LeaveVideoStage("poll threw", operation, Undefined)
       ELSE LoopTest(r, attempts + 1)
  /\ UNCHANGED <<onStatusChange, specResponse, spec, imagePromises, imgResponse, generatedImages,
                 codePromise, pitchPromise, audioResp, generatedCode, marketingPitchUrl,
                 auditResponse, selfCheck>>

(***************************************************************************)
(* STEP 5: the self-check audit.                                           *)
(***************************************************************************)
SelfCheckObject(issues, corrected) ==
  [t |-> "object", issues |-> Arr(issues), correctedSpec |-> corrected]
\* a corrected specification that differs from s
Revised(s) == Set(s, "productName", Str("Widget v2"))
\* the audit texts for the specification s
AuditTexts(s) ==
  { EmptyText, GarbageText, JsonText(JNull),
    JsonText(SelfCheckObject(<<>>, s)),
    JsonText(SelfCheckObject(<<Str("issue")>>, Revised(s))),
    JsonText(SelfCheckObject(<<Str("issue")>>, Without(Revised(s), {"partsList"}))),
    JsonText(SelfCheckObject(<<Str("issue")>>, JNull)),
    JsonText(Without(SelfCheckObject(<<Str("issue")>>, JNull), {"correctedSpec"})) }
AuditResponses(s) == {Threw} \cup AuditTexts(s)
\* variant: the fallback carries no corrected specification
ParseAudit_NullCorrected(text, s) ==
  LET parsed == JSONParse(OrEmptyObjectText(text))
  IN IF parsed.ok THEN parsed.val ELSE SelfCheckObject(<<>>, JNull)
\* try { selfCheck = JSON.parse(auditResponse.text || "{}") }
\* catch { selfCheck = { issues: [], correctedSpec: spec } }
ParseAudit(text, s) ==
  LET parsed == JSONParse(OrEmptyObjectText(text))
  IN IF parsed.ok THEN parsed.val ELSE SelfCheckObject(<<>>, s)

\* `Generated Image (${img.diagramType}): ${img.title}`
ContextLine(ty, title) == <<"Generated Image (", ty, "): ", title>>
NoImagesLine == <<"No images were generated.">>
\* variant: the context lists the entries of the plan
ImageContext_OfPlan(s, images) ==
  IF Len(s.diagramsPlan.v) > 0
  THEN [k \in 1..Len(s.diagramsPlan.v) |->
          ContextLine(Get(s.diagramsPlan.v[k], "diagramType"), Get(s.diagramsPlan.v[k], "title"))]
  ELSE <<NoImagesLine>>
\* imageContext: one line per generated image, joined with newlines, or the
\* sentence that there is none
ImageContext(s, images) ==
  IF Len(images) > 0
  THEN [k \in 1..Len(images) |-> ContextLine(images[k].diagramType, images[k].title)]
  ELSE <<NoImagesLine>>
\* the contents of the audit request: the specification and the image context
AuditPrompt(s, images) == [spec |-> s, imageContext |-> ImageContext(s, images)]
\* the prompt of the audit request of this run, once it is issued
auditPrompt ==
  IF calls["audit"] > 0 THEN AuditPrompt(spec, generatedImages) ELSE Undefined

\* the audit request settles: the packet is returned, or the exception propagates
AuditSettle ==
  /\ pc = "awaitAudit"
  /\ \E r \in AuditResponses(spec) :
       /\ auditResponse' = r
       /\ IF r = Threw
          THEN /\ pc' = "rejected"
               /\ outcome' = Failure("audit request")
               /\ UNCHANGED selfCheck
          ELSE /\ selfCheck' = ParseAudit(r, spec)
               /\ outcome' = Packet(spec, generatedImages, ParseAudit(r, spec),
                                    generatedCode, marketingPitchUrl, videoUrl)
               /\ pc' = "returned"
  /\ UNCHANGED <<onStatusChange, specResponse, statusLog, calls, spec, imagePromises, imgResponse,
                 generatedImages, codePromise, pitchPromise, audioResp, generatedCode,
                 marketingPitchUrl, operation, attempts, videoEnd, videoUrl>>

(***************************************************************************)
(* The caller: handleGenerate of src/App.tsx, which passes the sink         *)
(* (s) => setStatus(s), shows the packet and has it recorded.               *)
(***************************************************************************)
\* runs handleGenerate starts in the model
MaxRuns == 2

Digits == <<"0", "1", "2", "3", "4", "5", "6", "7", "8", "9">>
\* the value of a decimal digit
DigitValue == [c \in {Digits[d] : d \in 1..10} |-> CHOOSE v \in 0..9 : Digits[v + 1] = c]
\* n.toString() for a natural number: its decimal digits
RECURSIVE toString(_)
toString(n) ==
  IF n < 10 THEN <<Digits[n + 1]>> ELSE Append(toString(n \div 10), Digits[(n % 10) + 1])
\* Number(s) for a string of decimal digits
RECURSIVE Number(_)
Number(s) ==
  IF s = <<>> THEN 0
  ELSE 10 * Number(SubSeq(s, 1, Len(s) - 1))
         + DigitValue[s[Len(s)]]

\* variant: the original specification is taken whatever the audit returned
SpecOf_Original(response) == response.spec
\* selfCheck.correctedSpec || spec, as handleSaveRecent, handleDownload and
\* DesignDisplay all compute it
SpecOf(response) ==
  IF Truthy(Get(response.selfCheck, "correctedSpec"))
  THEN response.selfCheck.correctedSpec
  ELSE response.spec
\* reading response.selfCheck.correctedSpec throws a TypeError
NoSelfCheck(response) == response.selfCheck \in {JNull, Undefined}

\* the RecentDesign handleSaveRecent constructs at clock value t
NewItem(response, t) ==
  [id |-> Str(toString(t)),
   date |-> t,
   productName |-> IF Truthy(Get(SpecOf(response), "productName"))
                   THEN SpecOf(response).productName
                   ELSE Str("Untitled Project"),
   type |-> Get(SpecOf(response), "productType"),
   data |-> response]

\* what a step of generateDesignPacket does to the App: the sink sets the
\* status to each status it is given
Progress ==
  /\ status' = IF statusLog' # statusLog THEN statusLog'[Len(statusLog')] ELSE status
  /\ UNCHANGED <<hg, data, recents, store, now, saveOps, history, exported, other>>

\* the calls of handleGenerate so far: the settled and the awaited ones
Started ==
  Len(history) + (IF hg = "awaiting" THEN 1 ELSE 0) + (IF other > 0 THEN 1 ELSE 0)

\* the form is submitted: handleGenerate up to its await
handleGenerate ==
  /\ status = "idle"
  /\ hg = "none"
  /\ Started < MaxRuns
  /\ Call
  /\ hg' = "awaiting"
  /\ status' = "spec"
  /\ data' = JNull
  /\ UNCHANGED <<recents, store, now, saveOps, history, exported, other>>

\* the locals of a call that has settled are gone: the next call starts afresh
Discarded ==
  /\ pc' = "idle"
  /\ statusLog' = <<>>
  /\ calls' = [e \in Endpoints |-> 0]
  /\ specResponse' = Undefined
  /\ spec' = Undefined
  /\ imagePromises' = <<>>
  /\ imgResponse' = <<>>
  /\ generatedImages' = <<>>
  /\ codePromise' = NoPromise
  /\ pitchPromise' = NoPromise
  /\ audioResp' = Undefined
  /\ generatedCode' = Undefined
  /\ marketingPitchUrl' = Undefined
  /\ operation' = Undefined
  /\ attempts' = 0
  /\ videoEnd' = "none"
  /\ videoUrl' = Undefined
  /\ auditResponse' = Undefined
  /\ selfCheck' = Undefined
  /\ outcome' = NoOutcome

\* the promise of generateDesignPacket has settled: the rest of the try
\* block, handleSaveRecent up to its first await included, or the catch block
GenerateSettled ==
  /\ hg = "awaiting"
  /\ pc \in {"returned", "rejected"}
  /\ IF pc = "returned"
     THEN /\ data' = outcome
          /\ status' = "complete"
          /\ saveOps' = IF NoSelfCheck(outcome) THEN saveOps
                        ELSE Append(saveOps, [item |-> NewItem(outcome, now), step |-> "put"])
     ELSE /\ status' = "error"
          /\ UNCHANGED <<data, saveOps>>
  /\ history' = Append(history, outcome)
  /\ hg' = "none"
  /\ Discarded
  /\ UNCHANGED <<onStatusChange, recents, store, now, exported, other>>

\* one run of handleGenerate, left undisturbed
Next ==
  \/ handleGenerate
  \/ SpecSettle /\ Progress
  \/ \E i \in 1..MaxPlan : ImageSettle(i) /\ Progress
  \/ ImagesJoin /\ Progress
  \/ CodeSettle /\ Progress
  \/ PitchSettle /\ Progress
  \/ AuxReject /\ Progress
  \/ AuxJoin /\ Progress
  \/ VideoStartSettle /\ Progress
  \/ VideoWaitOver /\ Progress
  \/ VideoPollSettle /\ Progress
  \/ AuditSettle /\ Progress
  \/ GenerateSettled
Spec == Init /\ [][Next]_vars

\* the steps of a run that are not the user's: a request settles, the timer
\* of the poll loop fires, a continuation runs
RunStep ==
  \/ SpecSettle /\ Progress
  \/ \E i \in 1..MaxPlan : ImageSettle(i) /\ Progress
  \/ ImagesJoin /\ Progress
  \/ CodeSettle /\ Progress
  \/ PitchSettle /\ Progress
  \/ AuxReject /\ Progress
  \/ AuxJoin /\ Progress
  \/ VideoStartSettle /\ Progress
  \/ VideoWaitOver /\ Progress
  \/ VideoPollSettle /\ Progress
  \/ AuditSettle /\ Progress
  \/ GenerateSettled
\* the same run when every request settles and every timer fires in the end
SpecLive == Init /\ [][Next]_vars /\ WF_vars(RunStep)

(***************************************************************************)
(* generateDesignPacket under any caller: the progress sink is an optional  *)
(* parameter, and a sink is a function that may throw.                      *)
(***************************************************************************)
Stages == {"spec", "images", "code", "video", "audit"}
\* no sink, a sink that returns, and the sinks that throw on one status
AllSinks == {Undefined, Sink({})} \cup {Sink({s}) : s \in Stages}
InitSinks ==
  /\ onStatusChange \in AllSinks
  /\ NotCalled
  /\ Mounted
\* the App takes no part in such a call
NoApp == UNCHANGED appVars
NextSinks ==
  \/ Call /\ NoApp
  \/ SpecSettle /\ NoApp
  \/ \E i \in 1..MaxPlan : ImageSettle(i) /\ NoApp
  \/ ImagesJoin /\ NoApp
  \/ CodeSettle /\ NoApp
  \/ PitchSettle /\ NoApp
  \/ AuxReject /\ NoApp
  \/ AuxJoin /\ NoApp
  \/ VideoStartSettle /\ NoApp
  \/ VideoWaitOver /\ NoApp
  \/ VideoPollSettle /\ NoApp
  \/ AuditSettle /\ NoApp
SpecSinks == InitSinks /\ [][NextSinks]_vars

(***************************************************************************)
(* The store of src/services/db.ts: an IndexedDB object store with key      *)
(* path 'id'.                                                               *)
(***************************************************************************)
\* the order of IndexedDB on string keys: code unit by code unit
RECURSIVE KeyLess(_, _)
KeyLess(a, b) ==
  IF a = <<>> THEN b # <<>>
  ELSE IF b = <<>> THEN FALSE
  ELSE IF a[1] = b[1] THEN KeyLess(Tail(a), Tail(b))
  ELSE DigitValue[a[1]] < DigitValue[b[1]]

\* variant: put adds the record and keeps the one stored under its key
Put_KeepOld(st, design) == st \cup {design}
\* store.put(design): the record replaces the one stored under its key
Put(st, design) == {r \in st : r.id # design.id} \cup {design}

\* store.getAll(): the records in the order of their keys
RECURSIVE InsertByKey(_, _)
InsertByKey(ordered, x) ==
  IF ordered = <<>> THEN <<x>>
  ELSE IF KeyLess(x.id.v, Head(ordered).id.v) THEN <<x>> \o ordered
       ELSE <<Head(ordered)>> \o InsertByKey(Tail(ordered), x)
RECURSIVE GetAll(_)
GetAll(st) ==
  IF st = {} THEN <<>>
  ELSE LET r == CHOOSE q \in st : TRUE
       IN InsertByKey(GetAll(st \ {r}), r)

\* one step of a stable insertion sort with (a, b) => Number(b.id) - Number(a.id):
\* x goes behind every record that does not compare greater than it
RECURSIVE InsertById(_, _)
InsertById(sorted, x) ==
  IF sorted = <<>> THEN <<x>>
  ELSE IF Number(x.id.v) - Number(Head(sorted).id.v) <= 0
       THEN <<Head(sorted)>> \o InsertById(Tail(sorted), x)
       ELSE <<x>> \o sorted
\* variant: the records are left in the order getAll returned them in
SortById_KeyOrder(results) == results
\* results.sort((a, b) => Number(b.id) - Number(a.id))
RECURSIVE SortById(_)
SortById(results) ==
  IF results = <<>> THEN <<>>
  ELSE InsertById(SortById(SubSeq(results, 1, Len(results) - 1)), results[Len(results)])

RecentLimit == 10
\* results.slice(0, n)
Slice(results, n) == SubSeq(results, 1, IF Len(results) < n THEN Len(results) ELSE n)
\* how a call of saveRecentDesign or getRecentDesigns goes: well, or openDB
\* rejects, or the transaction (the getAll request) fails
DbOutcomes == {"ok", "open failed", "request failed"}
\* what saveRecentDesign leaves in the store
StoreAfterSave(st, design, how) == IF how = "ok" THEN Put(st, design) ELSE st
\* variant: the list is read although openDB failed
getRecentDesigns_NoCatch(st, how) == Slice(SortById(GetAll(st)), RecentLimit)
\* what getRecentDesigns resolves with; a failed request rejects instead
getRecentDesigns(st, how) ==
  IF how = "ok" THEN Slice(SortById(GetAll(st)), RecentLimit) ELSE <<>>

(***************************************************************************)
(* The App under the events of its user: submit, home, load a recent       *)
(* design, download; the progress, success and failure of a run; the       *)
(* steps of handleSaveRecent; the clock.                                   *)
(***************************************************************************)
\* ticks of the clock in the model
MaxTicks == 1

\* the continuation of handleGenerate is a microtask: it runs before the
\* next event of the user is handled
UserCanAct == ~(hg = "awaiting" /\ pc \in {"returned", "rejected"})
\* the DesignDisplay component renders without throwing
Displayed == status = "complete" /\ Truthy(data) /\ ~NoSelfCheck(data)

\* the statuses a run delivers, in the order of the function body
StageOrder == <<"spec", "images", "code", "video", "audit">>
\* The form shows whenever status is idle, a run being awaited or not, so
\* handleGenerate can be called again while its first call is awaited.  The
\* run of such a second call is kept by what the App sees of it: the
\* statuses it delivers, and what it settles to.
OtherPacket ==
  Packet(ApplyDefaults(FullSpec(<<>>)), <<>>, SelfCheckObject(<<>>, JNull),
         FullCode, Undefined, Undefined)

\* the form is submitted while a run is awaited
OtherGenerate ==
  /\ status = "idle"
  /\ hg = "awaiting"
  /\ UserCanAct
  /\ other = 0
  /\ Started < MaxRuns
  /\ other' = 1
  /\ status' = "spec"
  /\ data' = JNull
  /\ UNCHANGED <<onStatusChange, locals, hg, recents, store, now, saveOps, history, exported>>

\* the second run reaches its next setStatus call
OtherProgress ==
  /\ other \in 1..(Len(StageOrder) - 1)
  /\ other' = other + 1
  /\ status' = StageOrder[other + 1]
  /\ UNCHANGED <<onStatusChange, locals, hg, data, recents, store, now, saveOps, history,
                 exported>>

\* the second run settles: it returns after the audit, or rejects where a
\* run can reject (the specification, the code or the audit request)
OtherSettled ==
  /\ other > 0
  /\ \/ /\ other = Len(StageOrder)
        /\ data' = OtherPacket
        /\ status' = "complete"
        /\ saveOps' = Append(saveOps, [item |-> NewItem(OtherPacket, now), step |-> "put"])
        /\ history' = Append(history, OtherPacket)
     \/ /\ other \in {1, 3, 5}
        /\ status' = "error"
        /\ history' = Append(history, Failure("second run"))
        /\ UNCHANGED <<data, saveOps>>
  /\ other' = 0
  /\ UNCHANGED <<onStatusChange, locals, hg, recents, store, now, exported>>

\* const finalSpec = selfCheck.correctedSpec || spec of DesignDisplay
finalSpec == SpecOf(data)

\* the logo, 'Factory Home' or 'Back to Factory Floor' is clicked
handleHome ==
  /\ UserCanAct
  /\ status' = "idle"
  /\ data' = JNull
  /\ UNCHANGED <<onStatusChange, locals, hg, recents, store, now, saveOps, history, exported, other>>

\* a card of the recent designs is clicked: the grid shows when status is idle
handleLoadRecent ==
  /\ UserCanAct
  /\ status = "idle"
  /\ \E i \in 1..Len(recents) : data' = recents[i].data
  /\ status' = "complete"
  /\ UNCHANGED <<onStatusChange, locals, hg, recents, store, now, saveOps, history, exported, other>>

\* 'Return Home' of the error panel: setStatus('idle')
ReturnHome ==
  /\ UserCanAct
  /\ status = "error"
  /\ status' = "idle"
  /\ UNCHANGED <<onStatusChange, locals, hg, data, recents, store, now, saveOps, history,
                 exported, other>>

\* 'Download Packet' of the displayed packet
handleDownload ==
  /\ UserCanAct
  /\ Displayed
  /\ exported' = SpecOf(data)
  /\ UNCHANGED <<onStatusChange, locals, hg, status, data, recents, store, now, saveOps,
                 history, other>>

\* await saveRecentDesign(newItem) of the k-th handleSaveRecent is over: a
\* failed transaction rejects and the catch block ends the handler, a failed
\* openDB is swallowed by saveRecentDesign
SavePut(k) ==
  /\ saveOps[k].step = "put"
  /\ \E how \in DbOutcomes :
       /\ store' = StoreAfterSave(store, saveOps[k].item, how)
       /\ saveOps' = [saveOps EXCEPT ![k].step =
                        IF how = "request failed" THEN "done" ELSE "reload"]
  /\ UNCHANGED <<onStatusChange, locals, hg, status, data, recents, now, history, exported, other>>

\* await loadRecents() of the k-th handleSaveRecent is over: setRecents with
\* what getRecentDesigns resolved with, unless it rejected
SaveReload(k) ==
  /\ saveOps[k].step = "reload"
  /\ \E how \in DbOutcomes :
       recents' = IF how = "request failed" THEN recents ELSE getRecentDesigns(store, how)
  /\ saveOps' = [saveOps EXCEPT ![k].step = "done"]
  /\ UNCHANGED <<onStatusChange, locals, hg, status, data, store, now, history, exported, other>>

\* a millisecond passes
Tick ==
  /\ now < Epoch + MaxTicks
  /\ now' = now + 1
  /\ UNCHANGED <<onStatusChange, locals, hg, status, data, recents, store, saveOps, history,
                 exported, other>>

\* the endpoint answers of the runs under the user's events: the request
\* throws or answers well; the audit returns null, a revised specification
\* or no corrected specification
HasInline(resp) == resp # Threw /\ Truthy(ImageUrl(resp))
AppSpecResponses == {Threw, JsonText(FullSpec(<<PlanEntry("top", Str("A"))>>))}
AppAuditResponses(s) ==
  { Threw, JsonText(JNull),
    JsonText(SelfCheckObject(<<Str("issue")>>, Revised(s))),
    JsonText(SelfCheckObject(<<Str("issue")>>, JNull)) }

NextApp ==
  \/ handleGenerate
  \/ SpecSettle /\ Progress /\ specResponse' \in AppSpecResponses
  \/ \E i \in 1..MaxPlan :
       ImageSettle(i) /\ Progress /\ HasInline(imgResponse'[i])
  \/ ImagesJoin /\ Progress
  \/ CodeSettle /\ Progress /\ codePromise' \in {Rejected("code request"), Fulfilled(FullCode)}
  \/ PitchSettle /\ Progress /\ audioResp' = ImageResponse(<<InlinePart("pcm")>>)
  \/ AuxReject /\ Progress
  \/ AuxJoin /\ Progress
  \/ VideoStartSettle /\ Progress /\ pc' = "videoWait"
  \/ VideoWaitOver /\ Progress
  \/ VideoPollSettle /\ Progress /\ videoUrl' # Undefined
  \/ AuditSettle /\ Progress /\ auditResponse' \in AppAuditResponses(spec)
  \/ GenerateSettled
  \/ OtherGenerate
  \/ OtherProgress
  \/ OtherSettled
  \/ handleHome
  \/ handleLoadRecent
  \/ ReturnHome
  \/ handleDownload
  \/ \E k \in 1..Len(saveOps) : SavePut(k)
  \/ \E k \in 1..Len(saveOps) : SaveReload(k)
  \/ Tick
SpecApp == Init /\ [][NextApp]_vars

(***************************************************************************)
(* The store under a caller that saves records and lists them, as          *)
(* handleSaveRecent and loadRecents do, on a browser whose store already   *)
(* holds a record.                                                         *)
(***************************************************************************)
\* the largest id saved in the model
MaxId == 11

\* a RecentDesign with id n.toString()
Design(n, name) ==
  [id |-> Str(toString(n)), date |-> n, productName |-> Str(name),
   type |-> Str("physical"), data |-> OtherPacket]
\* one record per id, and a second one under the first id
Designs == {Design(n, "Widget") : n \in 1..MaxId} \cup {Design(1, "Widget v2")}

InitDb ==
  /\ onStatusChange \in Sinks
  /\ NotCalled
  /\ hg = "none"
  /\ status = "idle"
  /\ data = JNull
  /\ recents = <<Design(1, "Widget")>>
  /\ store = {Design(1, "Widget")}
  /\ now = Epoch
  /\ saveOps = <<>>
  /\ history = <<>>
  /\ exported = Undefined
  /\ other = 0

\* await saveRecentDesign(design); await loadRecents(): the reload is
\* skipped when the save rejects
SaveThenLoad(design) ==
  /\ \E saved \in DbOutcomes, loaded \in DbOutcomes \ {"request failed"} :
       /\ store' = StoreAfterSave(store, design, saved)
       /\ recents' = IF saved = "request failed" THEN recents
                     ELSE getRecentDesigns(store', loaded)
  /\ UNCHANGED <<onStatusChange, locals, hg, status, data, now, saveOps, history, exported,
                 other>>

\* loadRecents()
LoadRecents ==
  /\ \E loaded \in DbOutcomes \ {"request failed"} :
       recents' = getRecentDesigns(store, loaded)
  /\ UNCHANGED <<onStatusChange, locals, hg, status, data, store, now, saveOps, history,
                 exported, other>>

NextDb ==
  \/ \E design \in Designs : SaveThenLoad(design)
  \/ LoadRecents
SpecDb == InitDb /\ [][NextDb]_vars

(***************************************************************************)
(* The properties.                                                         *)
(***************************************************************************)
\* a response text that JSON.parse rejects
Unparseable(r) == r.t = "text" /\ r.kind = "garbage"
\* a plan entry with a non-empty title
Titled(e) == e # JNull /\ Get(e, "title") \notin {Undefined, Str("")}
\* an image response that carries an inline image part
HasInlinePart(r) ==
  /\ r.t = "response"
  /\ Len(r.candidates) > 0
  /\ \E k \in 1..Len(r.candidates[1].content.parts) :
       "inlineData" \in DOMAIN r.candidates[1].content.parts[k]
\* the data of the first inline image part of such a response
FirstInlineData(r) ==
  LET parts == r.candidates[1].content.parts
      k == CHOOSE k \in 1..Len(parts) :
             /\ "inlineData" \in DOMAIN parts[k]
             /\ \A j \in 1..(k - 1) : "inlineData" \notin DOMAIN parts[j]
  IN parts[k].inlineData.data
\* the plan entries that were titled and whose request brought an image
GoodEntries ==
  {i \in 1..Len(spec.diagramsPlan.v) :
     Titled(spec.diagramsPlan.v[i]) /\ HasInlinePart(imgResponse[i])}
SpecStageFailures == {"specification request", "Failed to generate valid spec"}

\* C1: generateDesignPacket rejects only if the specification stage failed:
\* whatever the diagram, code, pitch, video and audit endpoints do, a run
\* whose specification stage succeeded does not reject.
C1_RejectsOnlyOnSpecFailure ==
  pc = "rejected" => outcome.err \in SpecStageFailures

\* C2: when the specification request throws or its text is no JSON, the run
\* has rejected with an error, there is no packet, and no image, code, pitch,
\* video or audit request was ever issued.
C2_SpecFailureIsFatal ==
  (specResponse = Threw \/ Unparseable(specResponse)) =>
    /\ pc = "rejected"
    /\ outcome.t = "error"
    /\ \A e \in Endpoints \ {"spec"} : calls[e] = 0
    /\ PollCalls = 0
C2_Witness == pc = "rejected" /\ specResponse = GarbageText

\* C3: a returned packet's spec has non-null constraints, diagramsPlan and
\* partsList, and a field missing from the parsed response is the empty
\* record or array in the specification instead of failing the stage.
C3_DefaultedFieldsPresent ==
  /\ pc = "returned" =>
       \A f \in DefaultedFields : Get(outcome.spec, f) \notin {Undefined, JNull}
  /\ (specResponse.t = "text" /\ specResponse.kind = "json" /\ IsObject(specResponse.val)) =>
       /\ spec # Undefined
       /\ "constraints" \notin DOMAIN specResponse.val => Get(spec, "constraints") = EmptyObject
       /\ "diagramsPlan" \notin DOMAIN specResponse.val => Get(spec, "diagramsPlan") = Arr(<<>>)
       /\ "partsList" \notin DOMAIN specResponse.val => Get(spec, "partsList") = Arr(<<>>)
       /\ pc = "rejected" => outcome.err \notin SpecStageFailures
C3_Witness ==
  /\ pc = "returned"
  /\ specResponse = JsonText(Without(FullSpec(<<PlanEntry("top", Str("A"))>>), DefaultedFields))

\* C4: when the code request throws or its response is no JSON, a run that
\* has ended has returned a packet, and the packet has no implementationCode.
C4_CodeFailureContained ==
  (codePromise \in {Rejected("code request"), Fulfilled(Undefined)}
     /\ pc \in {"returned", "rejected"}) =>
    /\ pc = "returned"
    /\ outcome.implementationCode = Undefined

\* C5: when the audit stage fails, the request throwing included, the run
\* returns a packet whose selfCheck is {issues: [], correctedSpec: spec}.
C5_AuditFailureContained ==
  (auditResponse = Threw \/ Unparseable(auditResponse)) =>
    /\ pc = "returned"
    /\ outcome.selfCheck = [t |-> "object", issues |-> Arr(<<>>), correctedSpec |-> spec]

\* C6: when the audit response text is no JSON the run returns, with
\* selfCheck.issues empty and selfCheck.correctedSpec the packet's own spec.
C6_AuditParseFallback ==
  Unparseable(auditResponse) =>
    /\ pc = "returned"
    /\ outcome.t = "packet"
    /\ outcome.selfCheck.issues = Arr(<<>>)
    /\ outcome.selfCheck.correctedSpec = outcome.spec
C6_Witness == pc = "returned" /\ auditResponse = GarbageText

\* C7: a returned packet has at most as many images as the plan has titled
\* entries, and every image is the image of a titled entry whose request
\* returned an inline image part: none for an untitled entry, a request that
\* threw or a response without image.
C7_ImagesBounded ==
  pc = "returned" =>
    LET plan == outcome.spec.diagramsPlan.v
        titled == {i \in 1..Len(plan) : Titled(plan[i])}
    IN /\ Len(outcome.images) <= Cardinality(titled)
       /\ Len(outcome.images) <= Cardinality(GoodEntries)
       /\ \A k \in 1..Len(outcome.images) :
            \E i \in GoodEntries :
              /\ outcome.images[k].title = plan[i].title
              /\ outcome.images[k].diagramType = plan[i].diagramType
       /\ \A i \in 1..Len(plan) : i \notin GoodEntries => imagePromises[i].val = JNull
C7_Witness ==
  /\ pc = "returned"
  /\ Len(outcome.images) = 1
  /\ \E j \in 1..Len(imgResponse) : ~Titled(spec.diagramsPlan.v[j])

\* C8: diagram failures are contained per item: once the diagram stage is
\* over the images are exactly those of the titled entries whose request
\* returned an inline image part, each with that first part's data, whatever
\* the other requests did; the packet carries these images; and a run whose
\* specification stage succeeded never rejects before the code stage has begun.
C8_DiagramFailuresPerItem ==
  (spec # Undefined /\ pc \notin {"idle", "awaitSpec", "awaitImages"}) =>
    /\ Len(generatedImages) = Cardinality(GoodEntries)
    /\ \A i \in GoodEntries :
         \E k \in 1..Len(generatedImages) :
           /\ generatedImages[k].title = spec.diagramsPlan.v[i].title
           /\ generatedImages[k].diagramType = spec.diagramsPlan.v[i].diagramType
           /\ generatedImages[k].url =
                Str(<<"data:", "image/png", ";base64,", FirstInlineData(imgResponse[i])>>)
    /\ pc = "returned" => outcome.images = generatedImages
    /\ pc = "rejected" => codePromise # NoPromise
C8_Witness ==
  /\ pc = "returned"
  /\ Len(outcome.images) = 1
  /\ \E i \in 1..Len(imgResponse) : imgResponse[i] = Threw

\* C9: when starting the video or a poll throws, or the poll budget runs out,
\* the audit request is issued and the packet is returned, without videoUrl.
C9_VideoFailureContained ==
  videoEnd \in {"start threw", "poll threw", "exhausted"} =>
    /\ pc \in {"awaitAudit", "returned"}
    /\ calls["audit"] = 1
    /\ pc = "returned" => outcome.videoUrl = Undefined

\* C10: at most 30 poll requests are issued in a run, and a video stage that
\* ends with the operation still not done ends after exactly 30 polls and
\* leaves videoUrl absent.
C10_PollBudget ==
  /\ [](PollCalls <= 30)
  /\ [][(videoEnd # "exhausted" /\ videoEnd' = "exhausted") =>
          (PollCalls = 30 /\ videoUrl' = Undefined)]_vars
C10_Witness == pc = "returned" /\ videoEnd = "exhausted" /\ outcome.videoUrl = Undefined

\* the pitch request threw, or its response carries no audio payload
NoAudio(r) == r = Threw \/ (r.t = "response" /\ AudioData(r) = Undefined)

\* C11: when the pitch request throws or its response has no audio payload, a
\* run that has ended has returned a packet, the packet has no
\* marketingPitchUrl, and its implementationCode is what the code request
\* alone produced.
C11_PitchFailureContained ==
  (NoAudio(audioResp) /\ pc \in {"returned", "rejected"}) =>
    /\ pc = "returned"
    /\ outcome.marketingPitchUrl = Undefined
    /\ outcome.implementationCode = codePromise.val

\* C14: a request to the image, code, pitch, video or audit endpoint (a poll
\* included) has been issued only if the specification response was received
\* and parsed, and the specification is the parsed object with the three
\* defaults applied.
C14_SpecStageFirst ==
  ((\E e \in Endpoints \ {"spec"} : calls[e] > 0) \/ PollCalls > 0) =>
    /\ specResponse \notin {Undefined, Threw}
    /\ JSONParse(OrEmptyObjectText(specResponse)).ok
    /\ IsObject(spec)
    /\ \A f \in DOMAIN JSONParse(OrEmptyObjectText(specResponse)).val :
         spec[f] = JSONParse(OrEmptyObjectText(specResponse)).val[f]
           \/ (f \in DefaultedFields /\ JSONParse(OrEmptyObjectText(specResponse)).val[f] = JNull)
    /\ \A f \in DefaultedFields : Get(spec, f) \notin {Undefined, JNull}
C14_Witness ==
  /\ pc = "awaitImages"
  /\ calls["image"] = 2
  /\ specResponse = JsonText(FullSpec(<<PlanEntry("top", Str("A")), PlanEntry("side", Str("B"))>>))

\* the stage of each endpoint
StageOf(e) ==
  CASE e = "spec" -> "spec"
    [] e = "image" -> "images"
    [] e \in {"code", "pitch"} -> "code"
    [] e = "video" -> "video"
    [] e = "audit" -> "audit"
Delivered(s) == \E i \in 1..Len(statusLog) : statusLog[i] = s

\* C12: the statuses delivered to the sink are a prefix of spec, images,
\* code, video, audit (none repeated or out of order) and the whole of it in
\* a run that returns; a request of a stage is issued only once the status of
\* the stage is delivered; the caller's status is the last one delivered
\* while the run is in flight, and complete or error once it has settled,
\* complete exactly when a packet was returned.
C12_StatusSequence ==
  /\ Len(statusLog) <= Len(StageOrder)
  /\ \A i \in 1..Len(statusLog) : statusLog[i] = StageOrder[i]
  /\ pc = "returned" => statusLog = StageOrder
  /\ \A e \in Endpoints : calls[e] > 0 => Delivered(StageOf(e))
  /\ PollCalls > 0 => Delivered("video")
  /\ hg = "awaiting" => (statusLog # <<>> /\ status = statusLog[Len(statusLog)])
  /\ history # <<>> =>
       status = IF history[Len(history)].t = "packet" THEN "complete" ELSE "error"
C12_Witness ==
  /\ Len(history) = 1
  /\ status = "complete"
  /\ data = history[1]
  /\ data.videoUrl # Undefined

\* C13: the progress sink is advisory: a run never rejects with the
\* exception its sink threw, so a failing sink leaves the result what it is
\* with a sink that returns or with no sink at all.
C13_SinkIsAdvisory ==
  pc = "rejected" => outcome.err # "progress sink"

\* C15: in every state of the App, when status is 'error' data is null, and
\* when status is 'complete' data is a packet.
C15_PacketOrError ==
  /\ status = "error" => data = JNull
  /\ status = "complete" => (data # JNull /\ data.t = "packet")

\* C18: the records handleSaveRecent constructs, in the order the runs
\* completed in, have strictly increasing numeric ids, so no two of them
\* share an id.
C18_IdsStrictlyIncrease ==
  \A j, k \in 1..Len(saveOps) :
    j < k => Number(saveOps[j].item.id.v) < Number(saveOps[k].item.id.v)

IsPacket(o) == o.t = "packet"
\* C19: handleSaveRecent has constructed, and handed to saveRecentDesign,
\* one record per run that returned a packet, in order, the record's data
\* being that packet; a run that rejected has none.
C19_OneRecordPerCompletedRun ==
  /\ Len(saveOps) = Len(SelectSeq(history, IsPacket))
  /\ \A k \in 1..Len(saveOps) : saveOps[k].item.data = SelectSeq(history, IsPacket)[k]

\* the specification a consumer of the packet p has to use
EffectiveSpec(p) ==
  IF Get(p.selfCheck, "correctedSpec") \notin {JNull, Undefined}
  THEN p.selfCheck.correctedSpec
  ELSE p.spec
IdOf(r) == Number(r.id.v)
KeysOf(st) == {r.id : r \in st}

\* C16: getRecentDesigns resolves with at most 10 records of the store, in
\* strictly descending order of numeric id, and every record of the store
\* that is left out has a smaller id than each of them; and no step removes
\* a key from the store.
C16_TenMostRecent ==
  /\ [](LET r == getRecentDesigns(store, "ok")
        IN /\ Len(r) <= 10
           /\ Len(r) = IF Cardinality(store) < 10 THEN Cardinality(store) ELSE 10
           /\ \A i \in 1..Len(r) : r[i] \in store
           /\ \A i, j \in 1..Len(r) : i < j => IdOf(r[i]) > IdOf(r[j])
           /\ \A x \in store :
                (\A i \in 1..Len(r) : r[i] # x) => \A i \in 1..Len(r) : IdOf(r[i]) > IdOf(x)
           /\ recents \in {r, <<>>})
  /\ [][KeysOf(store) \subseteq KeysOf(store')]_vars
C16_Witness ==
  /\ Cardinality(store) = 11
  /\ Len(recents) = 10
  /\ IdOf(recents[1]) = 11
  /\ IdOf(recents[10]) = 2

\* C17: the store holds one record per id; saving a record leaves it stored
\* under its id in place of the record that was there, the other records
\* untouched; saving it a second time changes nothing; and the list
\* getRecentDesigns resolves with has no id twice.
C17_UpsertById ==
  /\ \A x, y \in store : x.id = y.id => x = y
  /\ \A d \in Designs :
       /\ d \in Put(store, d)
       /\ \A x \in Put(store, d) : x.id = d.id => x = d
       /\ \A x \in store : x.id # d.id => x \in Put(store, d)
       /\ KeysOf(Put(store, d)) = KeysOf(store) \cup {d.id}
       /\ Put(Put(store, d), d) = Put(store, d)
  /\ \A i, j \in 1..Len(recents) : i # j => recents[i].id # recents[j].id
C17_Witness ==
  /\ Design(1, "Widget v2") \in store
  /\ Design(1, "Widget") \notin store
  /\ Cardinality(store) = 3
  /\ Len(recents) = 3

\* C21: the specification the consumers of a returned packet use (the
\* corrected one when the audit gave one, the packet's spec otherwise) has
\* non-null constraints, diagramsPlan and partsList, whatever the audit
\* endpoint returned.
C21_EffectiveSpecDefaulted ==
  pc = "returned" =>
    \A f \in DefaultedFields : Get(EffectiveSpec(outcome), f) \notin {Undefined, JNull}

\* some diagram request is still pending
ImagePending == \E i \in 1..Len(imagePromises) : imagePromises[i] = Pending
\* C22: while a diagram request is pending the run is suspended at the join
\* of the diagram stage and the images list is empty, and while the code or
\* the pitch request is pending the run is suspended at the join of the code
\* stage: it has neither gone on nor ended.
C22_SingleJoinPoint ==
  /\ ImagePending => (pc = "awaitImages" /\ generatedImages = <<>>)
  /\ (codePromise = Pending \/ pitchPromise = Pending) => pc = "awaitAux"

\* the run is in the poll loop: in its wait, or awaiting its poll request
Polling == pc \in {"videoWait", "awaitPoll"}
\* C23: the poll loop is sequential.  The run is in the loop only with an
\* operation that has not reported done, no exception behind it and budget
\* left; a poll request is issued only when a wait is over, and a wait begins
\* only when the start request or a poll has settled, so no two polls are in
\* flight and exactly one wait precedes each poll; a start request that
\* returns a done operation or throws, and a poll that does, leave the loop
\* for good.
C23_SequentialPolling ==
  /\ [](Polling =>
          /\ operation # Undefined
          /\ ~IsDone(operation)
          /\ attempts < MaxAttempts
          /\ videoEnd = "none")
  /\ [][(pc # "awaitPoll" /\ pc' = "awaitPoll") =>
          (pc = "videoWait" /\ attempts' = attempts /\ operation' = operation)]_vars
  /\ [][(pc # "videoWait" /\ pc' = "videoWait") =>
          /\ pc \in {"awaitVideoStart", "awaitPoll"}
          /\ attempts' = IF pc = "awaitPoll" THEN attempts + 1 ELSE 0]_vars
  /\ [][(pc = "videoWait" /\ pc' # "videoWait") => pc' = "awaitPoll"]_vars
  /\ [][(videoEnd = "none" /\ videoEnd' # "none") =>
          (pc \in {"awaitVideoStart", "awaitPoll"} /\ ~Polling')]_vars
  /\ [][(videoEnd # "none" /\ Polling') => FALSE]_vars
C23_Witness ==
  /\ pc = "awaitPoll"
  /\ attempts = 2
  /\ operation = NotDone

VideoThrew == {"start threw", "poll threw"}
\* C24: when the video stage ends, videoUrl is present exactly if no request
\* of the stage threw and the operation as last reported, by the start
\* request or by a poll within the budget, is done and carries a result uri;
\* it is then that uri followed by "&key=" and the API key; and it is the
\* videoUrl of the packet.
C24_VideoUrlIffDoneWithUri ==
  /\ [][(videoEnd = "none" /\ videoEnd' # "none") =>
          /\ videoUrl' # Undefined <=>
                /\ videoEnd' \notin VideoThrew
                /\ operation' # Undefined
                /\ IsDone(operation')
                /\ ResultUri(operation') # Undefined
          /\ videoUrl' # Undefined =>
                videoUrl' = Str(<<ResultUri(operation').v, "&key=", API_KEY>>)
          /\ videoEnd' = "exhausted" => (pc = "awaitPoll" /\ attempts = MaxAttempts - 1)]_vars
  /\ [](videoEnd = "none" => videoUrl = Undefined)
  /\ [](pc = "returned" => outcome.videoUrl = videoUrl)
C24_Witness ==
  /\ pc = "returned"
  /\ videoEnd = "done"
  /\ operation = DoneWithUri
  /\ outcome.videoUrl = Str(<<"https://v/1?alt=media", "&key=", "KEY">>)

\* C25: the image context of the audit request has one line per image of
\* generatedImages, with that image's type and title and in their order,
\* however many entries the plan has; it is the no-images sentence exactly
\* when there is no image; and these images are the packet's.
C25_AuditDescribesImages ==
  calls["audit"] > 0 =>
    LET context == auditPrompt.imageContext
    IN /\ context = <<NoImagesLine>> <=> generatedImages = <<>>
       /\ generatedImages # <<>> =>
            /\ Len(context) = Len(generatedImages)
            /\ \A k \in 1..Len(generatedImages) :
                 context[k] = <<"Generated Image (", generatedImages[k].diagramType, "): ",
                                generatedImages[k].title>>
       /\ auditPrompt.spec = spec
       /\ pc = "returned" => outcome.images = generatedImages
C25_Witness ==
  /\ pc = "returned"
  /\ Len(spec.diagramsPlan.v) = 2
  /\ Len(outcome.images) = 1
  /\ auditPrompt.imageContext = <<ContextLine(Str("side"), Str("B"))>>

\* C26: once the diagram stage has begun, the image requests issued are as
\* many as the plan has entries with a non-empty title, and an entry that is
\* null or has no title or an empty one has no request: no response, and a
\* promise resolved with null from the start.
C26_UntitledEntriesSkipped ==
  spec # Undefined =>
    LET plan == spec.diagramsPlan.v
    IN /\ Len(imagePromises) = Len(plan)
       /\ calls["image"] = Cardinality({i \in 1..Len(plan) : Titled(plan[i])})
       /\ \A i \in 1..Len(plan) :
            ~Titled(plan[i]) =>
              (imgResponse[i] = Undefined /\ imagePromises[i] = Fulfilled(JNull))
       /\ \A i \in 1..Len(plan) :
            (imgResponse[i] # Undefined \/ imagePromises[i] = Pending) => Titled(plan[i])
C26_Witness ==
  /\ pc = "awaitVideoStart"
  /\ spec.diagramsPlan.v = <<PlanEntry("top", Str("")), PlanEntry("side", Str("B"))>>
  /\ calls["image"] = 1
  /\ Len(generatedImages) = 1

\* the code stage has begun
AuxStarted == codePromise # NoPromise \/ pitchPromise # NoPromise
\* C27: when the code stage has begun the code request and the pitch request
\* have both been issued, before the run awaits either; the settling of one
\* leaves the other as it is; and in a returned packet marketingPitchUrl is
\* what the pitch response gives and implementationCode what the code
\* response gave.
C27_CodeAndPitchIndependent ==
  /\ [](AuxStarted => (calls["code"] = 1 /\ calls["pitch"] = 1))
  /\ [][(codePromise = Pending /\ codePromise'.st \in {"fulfilled", "rejected"}) =>
          UNCHANGED <<pitchPromise, audioResp>>]_vars
  /\ [][(pitchPromise = Pending /\ pitchPromise'.st \in {"fulfilled", "rejected"}) =>
          (codePromise' = codePromise /\ pitchPromise' = Fulfilled(PitchResult(audioResp')))]_vars
  /\ [](pc = "returned" =>
          /\ outcome.marketingPitchUrl = PitchResult(audioResp)
          /\ outcome.implementationCode = codePromise.val)

\* C28: when every request that is issued settles in the end, a call of
\* generateDesignPacket returns or rejects in the end, and a call of
\* handleGenerate ends with the status complete or error.
C28_RunsTerminate ==
  /\ (pc = "awaitSpec") ~> (pc \in {"returned", "rejected"})
  /\ (hg = "awaiting") ~> (hg = "none" /\ status \in {"complete", "error"})
C28_Witness ==
  /\ hg = "none"
  /\ status = "complete"
  /\ Len(history) = 1
  /\ history[1].t = "packet"
  /\ history[1].videoUrl = Undefined
  /\ Len(history[1].images) = 2

\* the plan entries an image request was issued for
Requested == {i \in 1..Len(imagePromises) : imagePromises[i] = Pending \/ imgResponse[i] # Undefined}
\* C29: in a run the specification, code, pitch, video-start and audit
\* endpoints are each called at most once, the image requests are one per
\* plan entry that has one, and the images are at most one per plan entry
\* whose request was answered, even when the answer carries two images.
C29_NoRetry ==
  /\ \A e \in Endpoints \ {"image"} : calls[e] <= 1
  /\ calls["image"] = Cardinality(Requested)
  /\ calls["image"] <= Len(imagePromises)
  /\ Len(generatedImages) <= Cardinality({i \in Requested : imgResponse[i] # Undefined})
  /\ pc = "returned" => Len(outcome.images) <= Len(outcome.spec.diagramsPlan.v)
C29_Witness ==
  /\ pc = "returned"
  /\ calls = [e \in Endpoints |-> IF e = "image" THEN 2 ELSE 1]
  /\ \A i \in 1..2 :
       imgResponse[i] = ImageResponse(<<TextPart, InlinePart("img1"), InlinePart("img2")>>)
  /\ Len(outcome.images) = 2

\* a step of a handleSaveRecent call: its save or its reload is over
PersistenceStep == Len(saveOps') = Len(saveOps) /\ saveOps' # saveOps
\* C30: a step of handleSaveRecent, however its save or its reload went,
\* leaves the status and the displayed packet as they are; a save that did
\* not go well leaves the store as it is; a reload that did not go well
\* leaves the list of recent designs as it is or empties it; and
\* getRecentDesigns resolves with the empty list when openDB fails.
C30_PersistenceFailureContained ==
  /\ [][PersistenceStep => (status' = status /\ data' = data)]_vars
  /\ [][PersistenceStep =>
          \/ \E k \in 1..Len(saveOps) : store' = Put(store, saveOps[k].item)
          \/ store' = store]_vars
  /\ [][PersistenceStep =>
          recents' \in {recents, <<>>, getRecentDesigns(store, "ok")}]_vars
  /\ [](getRecentDesigns(store, "open failed") = <<>>)
C30_Witness ==
  /\ status = "complete"
  /\ Len(saveOps) = 1
  /\ saveOps[1].step = "done"
  /\ data = saveOps[1].item.data
  /\ store = {}
  /\ recents = <<>>

\* C31: once the diagram stage is over, the images are those of the plan
\* entries that produced one, in the order of these entries in the plan, in
\* whatever order the image requests settled; and the packet carries them
\* in that order.
C31_ImagesInPlanOrder ==
  (spec # Undefined /\ pc \notin {"idle", "awaitSpec", "awaitImages"}) =>
    /\ \E f \in [1..Len(generatedImages) -> 1..Len(spec.diagramsPlan.v)] :
         /\ \A j, k \in 1..Len(generatedImages) : j < k => f[j] < f[k]
         /\ {f[k] : k \in 1..Len(generatedImages)} = GoodEntries
         /\ \A k \in 1..Len(generatedImages) :
              /\ generatedImages[k].title = spec.diagramsPlan.v[f[k]].title
              /\ generatedImages[k].diagramType = spec.diagramsPlan.v[f[k]].diagramType
    /\ pc = "returned" => outcome.images = generatedImages
C31_Witness ==
  /\ pc = "returned"
  /\ outcome.spec.diagramsPlan.v = <<PlanEntry("side", Str("B")), PlanEntry("top", Str("A"))>>
  /\ Len(outcome.images) = 2
  /\ outcome.images[1].title = Str("B")
  /\ outcome.images[2].title = Str("A")

\* C32: the selfCheck of a returned packet is an object whose issues is a
\* list and whose correctedSpec is null or a specification, whatever the
\* audit endpoint returned.
C32_SelfCheckWellFormed ==
  pc = "returned" =>
    /\ IsObject(outcome.selfCheck)
    /\ Get(outcome.selfCheck, "issues").t = "array"
    /\ \/ Get(outcome.selfCheck, "correctedSpec") = JNull
       \/ IsObject(Get(outcome.selfCheck, "correctedSpec"))

\* C33: the implementationCode of a returned packet is absent or is an
\* object with language, code and explanation, whatever the code endpoint
\* returned.
C33_CodeArtifactComplete ==
  pc = "returned" =>
    \/ outcome.implementationCode = Undefined
    \/ /\ IsObject(outcome.implementationCode)
       /\ \A f \in {"language", "code", "explanation"} :
            Get(outcome.implementationCode, f).t = "string"

\* C34: a run whose specification was parsed and defaulted but has no
\* keyRequirements is not ended by that: it does not reject with the
\* TypeError of reading the missing field, and once it has ended it has
\* issued the video and the audit request and returned a packet, unless a
\* request threw.
C34_MissingFieldsTolerated ==
  (spec # Undefined /\ Get(spec, "keyRequirements") = Undefined) =>
    /\ codePromise # Rejected("TypeError")
    /\ pc = "rejected" => outcome.err \in {"code request", "audit request"}
    /\ pc = "returned" => (calls["video"] = 1 /\ calls["audit"] = 1)

\* a step of a run in flight: it delivers a status or it settles
StepOfARun ==
  \/ hg = "awaiting" /\ (statusLog' # statusLog \/ hg' = "none")
  \/ other > 0 /\ other' # other
\* C35: while the App shows the form (status idle) or a packet (status
\* complete), no step of a run in flight changes the status or the packet:
\* they change through the user's actions only; and no two runs are in
\* flight together.
C35_InFlightRunIsInert ==
  /\ [][(StepOfARun /\ status \in {"idle", "complete"}) =>
          (status' = status /\ data' = data)]_vars
  /\ [](~(hg = "awaiting" /\ other > 0))

\* a promise that has resolved or rejected
Settled(p) == p.st \in {"fulfilled", "rejected"}
\* C36: a code or pitch request has been issued only when no diagram
\* request is pending, the video start request only when the code and the
\* pitch promise have both settled, and the audit request only when the
\* video stage has ended: by a done operation, an exception or the
\* exhausted budget, with no start or poll request pending.
C36_StagesInSequence ==
  /\ (calls["code"] > 0 \/ calls["pitch"] > 0) =>
       (AllFulfilled(imagePromises) /\ pc # "awaitImages")
  /\ calls["video"] > 0 => (Settled(codePromise) /\ Settled(pitchPromise))
  /\ calls["audit"] > 0 =>
       /\ calls["video"] = 1
       /\ videoEnd \in {"done", "start threw", "poll threw", "exhausted"}
       /\ pc \notin {"awaitVideoStart", "videoWait", "awaitPoll"}
C36_Witness ==
  /\ pc = "awaitAudit"
  /\ videoEnd = "poll threw"
  /\ Len(imagePromises) = 2
  /\ calls = [e \in Endpoints |-> IF e = "image" THEN 2 ELSE 1]

\* C37: the specification of a run, once parsed and defaulted, is not
\* changed by any later step of the run, and the spec of the returned packet
\* is that specification, whatever corrected specification the audit gave.
C37_PacketSpecIsValidatedSpec ==
  /\ [][(spec # Undefined /\ spec' # Undefined) => spec' = spec]_vars
  /\ [](spec # Undefined => spec = ParseSpec(specResponse).val)
  /\ [](pc = "returned" => outcome.spec = ApplyDefaults(JSONParse(OrEmptyObjectText(specResponse)).val))
C37_Witness ==
  /\ pc = "returned"
  /\ outcome.selfCheck = SelfCheckObject(<<Str("issue")>>, Revised(spec))
  /\ outcome.spec.productName = Str("Widget")
  /\ outcome.spec # outcome.selfCheck.correctedSpec
====
